---- MODULE Spec2Model ----
(***************************************************************************)
(* The asynchronous PME GPU pipeline of pme_gpu.cpp: one controlling host  *)
(* thread issues the stages of a step onto a single FIFO stream, the       *)
(* device executes the stream concurrently, and the step is completed by   *)
(* a poll (pme_gpu_try_finish_task) or a block (pme_gpu_wait_and_reduce).  *)
(***************************************************************************)
EXTENDS Integers, Sequences, FiniteSets, TLC

\* ------------------------------------------------------------------ bounds
\* Number of MD steps the engine drives through the pipeline.
MaxSteps == 2
\* Number of particles in the force arrays.
NAtoms == 2
\* The integer that stands for lambda = 1.0; lambdas are k / LambdaOne.
LambdaOne == 2
\* Largest grid count a solver is constructed with (only 1 and 2 are legal).
MaxGrids == 3
\* Number of polls of one step that may return "not done".
MaxPolls == 2
\* Number of host threads of the PME module (gmx_omp_nthreads_get).
NThreads == 2

\* ------------------------------------------------------- program constants
DIM == 3
XX == 0
YY == 1
ZZ == 2

Dims == 0 .. (DIM - 1)
Atoms == 1 .. NAtoms
Grids == 0 .. (MaxGrids - 1)
Lambdas == {1, LambdaOne}
CompletionKinds == {"Wait", "Check"}
Threads == 0 .. (NThreads - 1)

\* ------------------------------------------------------------------ boxes
\* A box is a DIM x DIM matrix.  BoxA is a triclinic reference box, BoxB
\* differs from it in a lower-triangular entry only, BoxC in an
\* upper-triangular entry only.
MkBox(zy, xy, zz) ==
    [i \in Dims |-> [j \in Dims |->
        IF i = j THEN (IF i = ZZ THEN zz ELSE 2 + i)
        ELSE IF i = ZZ /\ j = YY THEN zy
        ELSE IF i = XX /\ j = YY THEN xy
        ELSE IF j < i THEN 1 ELSE 0]]

BoxA == MkBox(1, 0, 4)
BoxB == MkBox(2, 0, 4)
BoxC == MkBox(1, 1, 4)
Boxes == {BoxA, BoxB, BoxC}

\* The value previousBox holds after construction: no real box equals it,
\* since a real box has a positive diagonal.
ZeroBox == [i \in Dims |-> [j \in Dims |-> 0]]

\* boxScaler->scaleBox: the external box-scaling transform (here the one of a
\* run without pressure-coupling deformation: it keeps the lower triangle
\* and clears the upper one).
scaleBox(box) ==
    [i \in Dims |-> [j \in Dims |-> IF j <= i THEN box[i][j] ELSE 0]]

\* gmx::invertBoxMatrix, as numerators over the determinant
\* src[XX][XX]*src[YY][YY]*src[ZZ][ZZ]: only the lower triangle is read.
invertBoxMatrix(src) ==
    [i \in Dims |-> [j \in Dims |->
        IF i = XX /\ j = XX THEN src[YY][YY] * src[ZZ][ZZ]
        ELSE IF i = YY /\ j = YY THEN src[XX][XX] * src[ZZ][ZZ]
        ELSE IF i = ZZ /\ j = ZZ THEN src[XX][XX] * src[YY][YY]
        ELSE IF i = YY /\ j = XX THEN 0 - (src[YY][XX] * src[ZZ][ZZ])
        ELSE IF i = ZZ /\ j = XX
            THEN src[YY][XX] * src[ZZ][YY] - src[YY][YY] * src[ZZ][XX]
        ELSE IF i = ZZ /\ j = YY THEN 0 - (src[ZZ][YY] * src[XX][XX])
        ELSE 0]]

\* ------------------------------------------------------------ device data
\* Per-particle force of the charge state of grid g, and the energy and
\* virial the solve of grid g produces, in MD step st.
GridForce(g, i, st) == i + 3 * g + 7 * st
GridEnergy(g, st) == 3 + 2 * g + 11 * st
GridVirial(g, st) == 5 + 6 * g + 13 * st

\* What the engine's accumulators hold at the start of a step (the
\* contributions of the other force terms).
OtherForce(i) == 10 * i
OtherTerms == [virial |-> 20, energy |-> 30, dvdl |-> 40]

NoEnergy == [energy |-> 0, virial |-> 0]

VARIABLES
    pme,                    \* gmx_pme_t: runMode, nnodes, ndecompdim, doCoulomb,
                            \* bPPnode, bFEP_q, recipbox, boxVolume, solve_work
    common,                 \* pmeGpu->common: ngrids, previousBox
    settings,               \* pmeGpu->settings
    c_streamQuerySupported, \* build constant GMX_GPU == GMX_GPU_CUDA
    stream,                 \* the GPU stream: issued and not yet executed work
    dev,                    \* device-resident state and its host staging buffers
    forceWithVirial,        \* the engine's force and virial accumulators
    enerd,                  \* the engine's energy accumulators
    pc,                     \* position of the controlling host thread
    step,                   \* the current MD step
    gridIndex,              \* loop variable of pme_gpu_launch_complex_transforms
    stepWork,               \* the StepWorkload of the step, as far as the calls
                            \* after prepare read it
    lambdaQ,                \* the lambda the engine passes during the step
    call,                   \* the host call made last: name, arguments, what it did
    issued,                 \* stages launched in this step, in launch order
    executed,               \* stages of this step the device has executed, in order
    nReduce,                \* calls of pme_gpu_reduce_outputs (outputs) and of
                            \* sum_forces (forces) made in this step
    nNotDone,               \* polls of this step that returned "not done"
    boxHistory              \* the arguments of the prepare calls made so far, in
                            \* a run that keeps this record

vars == <<pme, common, settings, c_streamQuerySupported, stream, dev,
          forceWithVirial, enerd, pc, step, gridIndex, stepWork, lambdaQ,
          call, issued, executed, nReduce, nNotDone, boxHistory>>

\* ------------------------------------------------------------- the stream
\* One unit of device work.  cev: the solve computes energy and virial;
\* lambda and inPlace: the gather's weighting and whether it accumulates
\* into the destination force buffer instead of the staging buffer.
StreamOp(op, grid, ordering, cev, lambda, inPlace) ==
    [op |-> op, grid |-> grid, ordering |-> ordering, cev |-> cev,
     lambda |-> lambda, inPlace |-> inPlace, step |-> step]

StageOp(op, grid) == StreamOp(op, grid, "none", FALSE, 0, FALSE)

StageNames == {"spread", "r2c", "solve", "c2r", "gather"}

\* The forces the gather kernel produces for particle i, in units of
\* 1 / LambdaOne: the lambda-weighted mix of both grids when there are two.
GatherForce(i, lambda, st) ==
    IF common.ngrids = 2
    THEN (LambdaOne - lambda) * GridForce(0, i, st) + lambda * GridForce(1, i, st)
    ELSE LambdaOne * GridForce(0, i, st)

\* The effect of the device executing one op on D = [dev, force_, executed].
ExecOp(D, o) ==
    LET log == IF o.op \in StageNames /\ o.step = step
               THEN Append(D.executed, [op |-> o.op, grid |-> o.grid])
               ELSE D.executed
        E == [D EXCEPT !.executed = log]
    IN  IF o.op = "solve" /\ o.cev
        THEN [E EXCEPT !.dev.energy[o.grid] =
                  [energy |-> GridEnergy(o.grid, o.step),
                   virial |-> GridVirial(o.grid, o.step)]]
        ELSE IF o.op = "gather" /\ o.inPlace
        THEN [E EXCEPT !.force_ =
                  [i \in Atoms |-> D.force_[i] + GatherForce(i, o.lambda, o.step)]]
        ELSE IF o.op = "gather"
        THEN [E EXCEPT !.dev.h_forces =
                  [i \in Atoms |-> GatherForce(i, o.lambda, o.step)]]
        ELSE IF o.op = "clear_energy_virial"
        THEN [E EXCEPT !.dev.energy = [g \in Grids |-> NoEnergy]]
        ELSE E

RECURSIVE ExecAll(_, _)
ExecAll(D, ops) ==
    IF ops = <<>> THEN D ELSE ExecAll(ExecOp(D, Head(ops)), Tail(ops))

DevNow == [dev |-> dev, force_ |-> forceWithVirial.force_, executed |-> executed]

\* Index of the last op of kind `name` in the stream, 0 when there is none.
LastIndexOf(name) ==
    LET S == {k \in 1 .. Len(stream) : stream[k].op = name}
    IN  IF S = {} THEN 0 ELSE CHOOSE k \in S : \A m \in S : m <= k

\* pme_gpu_synchronize: the host waits until the stream is empty.
pme_gpu_synchronize == [D |-> ExecAll(DevNow, stream), stream |-> <<>>]

\* pme_gpu_sync_spread_grid: the host waits for the event spread recorded;
\* the stream being FIFO, everything up to the spread has then executed.
pme_gpu_sync_spread_grid ==
    LET k == LastIndexOf("spread")
    IN  [D |-> ExecAll(DevNow, SubSeq(stream, 1, k)),
         stream |-> SubSeq(stream, k + 1, Len(stream))]

\* pme_gpu_stream_query: has all work enqueued on the stream completed?
pme_gpu_stream_query == stream = <<>>

\* The device executes the op at the head of the stream.
DeviceExec ==
    /\ stream # <<>>
    /\ LET D == ExecOp(DevNow, Head(stream))
       IN  /\ dev' = D.dev
           /\ forceWithVirial' = [forceWithVirial EXCEPT !.force_ = D.force_]
           /\ executed' = D.executed
    /\ stream' = Tail(stream)
    /\ UNCHANGED <<pme, common, settings, c_streamQuerySupported, boxHistory, enerd, pc,
                   step, gridIndex, stepWork, lambdaQ, call, issued, nReduce,
                   nNotDone>>

\* ------------------------------------------------------------ construction
\* nnodes and ndecompdim of the solver: a single rank, or two ranks
\* decomposed along one dimension; the other two are inconsistent.
Topologies ==
    {[nnodes |-> 0, ndecompdim |-> 0], [nnodes |-> 1, ndecompdim |-> 0],
     [nnodes |-> 2, ndecompdim |-> 0], [nnodes |-> 2, ndecompdim |-> 1]}

NoOutput ==
    [haveForceOutput_ |-> FALSE, forces_ |-> <<>>, coulombEnergy_ |-> 0,
     coulombVirial_ |-> 0, coulombDvdl_ |-> 0]

\* The record of a host call: its name, how it returned, what it did in
\* order, and (where the call has them) its arguments, the weighting factor
\* it handed to the output fetch and the fetched output.
Call(name, ret, events) ==
    [name |-> name, ret |-> ret, events |-> events, box |-> ZeroBox,
     haveDynamicBox |-> FALSE, kind |-> "none", lambda |-> 0,
     output |-> NoOutput]

OtherForces == [i \in Atoms |-> OtherForce(i)]

\* All solvers that can be constructed, in the state construction leaves.
Constructed ==
    /\ \E rm \in {"CPU", "GPU"}, t \in Topologies,
          coul \in BOOLEAN, pp \in BOOLEAN, fep \in BOOLEAN :
          pme = [runMode |-> rm, nnodes |-> t.nnodes, ndecompdim |-> t.ndecompdim,
                 doCoulomb |-> coul, bPPnode |-> pp, bFEP_q |-> fep,
                 recipbox |-> ZeroBox, boxVolume |-> 0,
                 solve_work |-> [g \in Grids |-> NoEnergy]]
    /\ \E n \in 1 .. MaxGrids : common = [ngrids |-> n, previousBox |-> ZeroBox]
    /\ \E fft \in BOOLEAN, solve \in BOOLEAN, gather \in BOOLEAN :
          settings = [performGPUFFT |-> fft, performGPUSolve |-> solve,
                      performGPUGather |-> gather, useGpuForceReduction |-> FALSE,
                      useDecomposition |-> (pme.nnodes > 1)]
    /\ c_streamQuerySupported \in BOOLEAN
    /\ stream = <<>>
    /\ dev = [box |-> ZeroBox, energy |-> [g \in Grids |-> NoEnergy],
              h_forces |-> [i \in Atoms |-> 0]]
    /\ forceWithVirial = [force_ |-> OtherForces, virial_ |-> OtherTerms.virial]
    /\ enerd = [term |-> OtherTerms.energy, dvdl_lin |-> OtherTerms.dvdl]
    /\ gridIndex = 0
    /\ stepWork = [computeEnergy |-> FALSE, computeVirial |-> FALSE,
                   useGpuPmeFReduction |-> FALSE]
    /\ lambdaQ = LambdaOne
    /\ call = Call("none", "ok", <<>>)
    /\ issued = <<>>
    /\ executed = <<>>
    /\ nReduce = [outputs |-> 0, forces |-> 0]
    /\ nNotDone = 0
    /\ boxHistory = <<>>

\* The engine is about to run steps 1 .. MaxSteps through the pipeline.
InitAll ==
    /\ Constructed
    /\ pc = "prepare"
    /\ step = 1

StepWorkloads ==
    [haveDynamicBox : BOOLEAN, computeEnergy : BOOLEAN,
     computeVirial : BOOLEAN, useGpuPmeFReduction : BOOLEAN]

\* --------------------------------------------------------------- prepare
pme_gpu_active == pme.runMode # "CPU"

\* Mutant of shouldUpdateBox: only the diagonal is compared.
shouldUpdateBox_DiagonalOnly(box) ==
    \E i \in Dims : common.previousBox[i][i] # box[i][i]

\* Mutant of shouldUpdateBox: the inner loop runs over the whole row.
shouldUpdateBox_AllEntries(box) ==
    \E i \in Dims : \E j \in Dims : common.previousBox[i][j] # box[i][j]

\* The comparison loop of pme_gpu_prepare_computation.
shouldUpdateBox(box) ==
    \E i \in Dims : \E j \in 0 .. i : common.previousBox[i][j] # box[i][j]

\* Mutant of CopiedBox: the box is not persisted.
CopiedBox_Stale(box) == common.previousBox

\* Mutant of CopiedBox: the inner loop stops short of the diagonal.
CopiedBox_BelowDiagonal(box) ==
    [i \in Dims |-> [j \in Dims |->
        IF j < i THEN box[i][j] ELSE common.previousBox[i][j]]]

\* previousBox after the loop: the entries j <= i are overwritten.
CopiedBox(box) ==
    [i \in Dims |-> [j \in Dims |->
        IF j <= i THEN box[i][j] ELSE common.previousBox[i][j]]]

\* The condition of the box update.
BoxUpdateTriggered(box, sw) == sw.haveDynamicBox \/ shouldUpdateBox(box)

\* Mutant of ReductionModeSet: the setting keeps the value it had.
ReductionModeSet_Kept(sw) == settings.useGpuForceReduction

\* The value prepare gives to the solver's useGpuForceReduction.
ReductionModeSet(sw) == sw.useGpuPmeFReduction

\* Mutant of HostBoxRecomputed: the host recomputes on every trigger.
HostBoxRecomputed_OnEveryTrigger(update) == update

\* The host reciprocal box and cell volume are recomputed on a trigger when
\* the solve is not device-executed.
HostBoxRecomputed(update) == update /\ ~settings.performGPUSolve

\* The engine starts a step: it takes fresh accumulators and calls
\* pme_gpu_prepare_computation with the step's box and workload.  It does so
\* only once the forces of the previous step have been consumed, that is once
\* no gather is pending on the stream.
pme_gpu_prepare_computation(box, sw, lambda) ==
    /\ pc = "prepare"
    /\ LastIndexOf("gather") = 0
    /\ stepWork' = [computeEnergy |-> sw.computeEnergy,
                    computeVirial |-> sw.computeVirial,
                    useGpuPmeFReduction |-> sw.useGpuPmeFReduction]
    /\ lambdaQ' = lambda
    /\ forceWithVirial' = [force_ |-> OtherForces, virial_ |-> OtherTerms.virial]
    /\ enerd' = [term |-> OtherTerms.energy, dvdl_lin |-> OtherTerms.dvdl]
    /\ issued' = <<>>
    /\ executed' = <<>>
    /\ nReduce' = [outputs |-> 0, forces |-> 0]
    /\ nNotDone' = 0
    /\ gridIndex' = 0
    /\ IF ~(pme_gpu_active /\ pme.nnodes > 0
            /\ (pme.nnodes = 1 \/ pme.ndecompdim > 0))
       THEN /\ pc' = "aborted"
            /\ call' = [Call("prepare", "abort", <<"assert">>) EXCEPT
                           !.box = box, !.haveDynamicBox = sw.haveDynamicBox]
            /\ UNCHANGED <<pme, common, settings, dev>>
       ELSE LET update == BoxUpdateTriggered(box, sw)
                host == HostBoxRecomputed(update)
                scaledBox == scaleBox(box)
            IN  /\ settings' = [settings EXCEPT
                                    !.useGpuForceReduction = ReductionModeSet(sw)]
                /\ common' = [common EXCEPT !.previousBox = CopiedBox(box)]
                /\ dev' = IF update THEN [dev EXCEPT !.box = box] ELSE dev
                /\ pme' = IF host
                          THEN [pme EXCEPT
                                   !.recipbox = invertBoxMatrix(scaledBox),
                                   !.boxVolume = scaledBox[XX][XX] * scaledBox[YY][YY]
                                                 * scaledBox[ZZ][ZZ]]
                          ELSE pme
                /\ call' = [Call("prepare", "ok",
                                 (IF update THEN <<"update_input_box">> ELSE <<>>)
                                 \o (IF host THEN <<"recipbox">> ELSE <<>>)) EXCEPT
                               !.box = box, !.haveDynamicBox = sw.haveDynamicBox]
                /\ pc' = "spread"
    /\ UNCHANGED <<c_streamQuerySupported, stream, step>>

Prepare ==
    \E box \in Boxes, sw \in StepWorkloads, lambda \in Lambdas :
        /\ pme_gpu_prepare_computation(box, sw, lambda)
        /\ UNCHANGED boxHistory

\* The workloads of a run that computes neither energy nor virial and
\* reduces the forces on the host.
BoxWorkloads ==
    {sw \in StepWorkloads :
        ~sw.computeEnergy /\ ~sw.computeVirial /\ ~sw.useGpuPmeFReduction}

\* The prepare call of a run that keeps the record of the boxes passed.
PrepareBoxes ==
    \E box \in Boxes, sw \in BoxWorkloads :
        /\ pme_gpu_prepare_computation(box, sw, LambdaOne)
        /\ boxHistory' = Append(boxHistory,
                                [box |-> box, haveDynamicBox |-> sw.haveDynamicBox])

\* The workloads of a run with a static box that computes neither energy
\* nor virial and reduces the forces on the device in some steps and on the
\* host in others.
ModeWorkloads ==
    {sw \in StepWorkloads :
        ~sw.haveDynamicBox /\ ~sw.computeEnergy /\ ~sw.computeVirial}

\* The prepare call of a run that keeps the record of the boxes and of the
\* reduction flags passed.
PrepareModes ==
    \E box \in {BoxA, BoxB}, sw \in ModeWorkloads :
        /\ pme_gpu_prepare_computation(box, sw, LambdaOne)
        /\ boxHistory' = Append(boxHistory,
                                [box |-> box, haveDynamicBox |-> sw.haveDynamicBox,
                                 useGpuPmeFReduction |-> sw.useGpuPmeFReduction])

\* The workloads of a run with a static box: every choice of energy, virial
\* and reduction mode.
EnergyWorkloads == {sw \in StepWorkloads : ~sw.haveDynamicBox}

\* The prepare call of a run with the one box BoxA.
PrepareEnergy ==
    \E sw \in EnergyWorkloads, lambda \in Lambdas :
        /\ pme_gpu_prepare_computation(BoxA, sw, lambda)
        /\ UNCHANGED boxHistory

\* The workloads of a step that is completed by polling: a static box and
\* host-side force reduction.
PollingWorkloads ==
    {sw \in StepWorkloads : ~sw.haveDynamicBox /\ ~sw.useGpuPmeFReduction}

\* The prepare call of a run that completes its steps by polling.
PreparePolling ==
    \E sw \in PollingWorkloads, lambda \in Lambdas :
        /\ pme_gpu_prepare_computation(BoxA, sw, lambda)
        /\ UNCHANGED boxHistory

\* ---------------------------------------------------------------- launches
\* A stage launched in this step: where it runs ("gpu": enqueued on the
\* stream, "cpu": run by the host threads before the launch returns), and,
\* for a host stage, whether device work that writes the grid it reads was
\* still pending on the stream when it ran.
Stage(op, grid, where, ordering, inPlace, pending) ==
    [op |-> op, grid |-> grid, where |-> where, ordering |-> ordering,
     inPlace |-> inPlace, pending |-> pending]

\* Does stream op o write grid g?  Spread and the grid clearing write all grids.
WritesGrid(o, g) ==
    \/ o.op \in {"spread", "clear_grids"}
    \/ o.op \in {"r2c", "solve", "c2r"} /\ o.grid = g

PendingWriter(g) == \E k \in 1 .. Len(stream) : WritesGrid(stream[k], g)

pme_gpu_launch_spread(xReadyOnDevice) ==
    /\ pc = "spread"
    /\ IF ~(/\ pme_gpu_active
            /\ (xReadyOnDevice \/ ~pme.bPPnode \/ ~c_streamQuerySupported)
            /\ pme.doCoulomb
            /\ (common.ngrids = 1 \/ (common.ngrids = 2 /\ pme.bFEP_q)))
       THEN /\ pc' = "aborted"
            /\ call' = Call("spread", "abort", <<"assert">>)
            /\ UNCHANGED <<stream, issued>>
       ELSE /\ stream' = Append(stream, StageOp("spread", 0))
            /\ issued' = Append(issued, Stage("spread", 0, "gpu", "none", FALSE, FALSE))
            /\ call' = Call("spread", "ok", <<"launch">>)
            /\ pc' = "transform"
    /\ UNCHANGED <<pme, common, settings, c_streamQuerySupported, boxHistory, dev,
                   forceWithVirial, enerd, step, gridIndex, stepWork, lambdaQ,
                   executed, nReduce, nNotDone>>

Spread == \E xReadyOnDevice \in BOOLEAN : pme_gpu_launch_spread(xReadyOnDevice)

\* Mutant of computeEnergyAndVirial: the virial flag is forgotten.
computeEnergyAndVirial_OnlyEnergy(sw) == sw.computeEnergy

\* computeEnergyAndVirial of a StepWorkload.
computeEnergyAndVirial(sw) == sw.computeEnergy \/ sw.computeVirial

\* Mutant of WaitsForSpread: the wait is missing.
WaitsForSpread_Never == FALSE

\* The transform stage waits for spread when the FFT is host-threaded.
WaitsForSpread == ~settings.performGPUFFT

\* pme_gpu_launch_complex_transforms up to the loop: the wait for spread of
\* the host-FFT path.
\* What reading pme->gpu->settings does.  The stage makes no check of the
\* run mode; on a solver without a device part the read is undefined: the
\* process crashes, or the stage carries on with what it read.
SettingsReadOutcomes == IF pme_gpu_active THEN {"read"} ELSE {"read", "crash"}

TransformEnter ==
    /\ pc = "transform"
    /\ \E outcome \in SettingsReadOutcomes :
          IF outcome = "crash"
          THEN /\ pc' = "crashed"
               /\ call' = Call("transform", "crash", <<>>)
               /\ UNCHANGED <<stream, dev, forceWithVirial, executed, gridIndex>>
          ELSE /\ IF WaitsForSpread
                  THEN LET w == pme_gpu_sync_spread_grid
                       IN  /\ stream' = w.stream
                           /\ dev' = w.D.dev
                           /\ forceWithVirial' =
                                  [forceWithVirial EXCEPT !.force_ = w.D.force_]
                           /\ executed' = w.D.executed
                           /\ call' = Call("transform", "running",
                                           <<"sync_spread_grid">>)
                  ELSE /\ call' = Call("transform", "running", <<>>)
                       /\ UNCHANGED <<stream, dev, forceWithVirial, executed>>
               /\ gridIndex' = 0
               /\ pc' = "r2c"
    /\ UNCHANGED <<pme, common, settings, c_streamQuerySupported, boxHistory, enerd, step,
                   stepWork, lambdaQ, issued, nReduce, nNotDone>>

\* parallel_3dfft_execute_gpu_wrapper: the device FFT is enqueued, the host
\* FFT is run by the host threads.
parallel_3dfft_execute_gpu_wrapper(dir) ==
    IF settings.performGPUFFT
    THEN /\ stream' = Append(stream, StageOp(dir, gridIndex))
         /\ issued' = Append(issued, Stage(dir, gridIndex, "gpu", "none", FALSE, FALSE))
         /\ call' = [call EXCEPT !.events = Append(@, "launch")]
    ELSE /\ issued' = Append(issued, Stage(dir, gridIndex, "cpu", "none", FALSE,
                                           PendingWriter(gridIndex)))
         /\ call' = [call EXCEPT !.events = Append(@, "host")]
         /\ UNCHANGED stream

TransformR2C ==
    /\ pc = "r2c"
    /\ parallel_3dfft_execute_gpu_wrapper("r2c")
    /\ pc' = "solve"
    /\ UNCHANGED <<pme, common, settings, c_streamQuerySupported, boxHistory, dev,
                   forceWithVirial, enerd, step, gridIndex, stepWork, lambdaQ,
                   executed, nReduce, nNotDone>>

\* Mutant of GridOrderingOf: the ordering does not follow the decomposition.
GridOrderingOf_AlwaysXYZ(useDecomposition) == "XYZ"

\* The solve of the loop body: pme_gpu_solve is enqueued, solve_pme_yzx is
\* run by the host threads and leaves its energy and virial in the host
\* work structure.
GridOrderingOf(useDecomposition) == IF useDecomposition THEN "YZX" ELSE "XYZ"

TransformSolve ==
    /\ pc = "solve"
    /\ LET cev == computeEnergyAndVirial(stepWork)
       IN  IF settings.performGPUSolve
           THEN LET gridOrdering == GridOrderingOf(settings.useDecomposition)
                IN  /\ stream' = Append(stream, StreamOp("solve", gridIndex,
                                            gridOrdering, cev, 0, FALSE))
                    /\ issued' = Append(issued, Stage("solve", gridIndex, "gpu",
                                                      gridOrdering, FALSE, FALSE))
                    /\ call' = [call EXCEPT !.events = Append(@, "launch")]
                    /\ UNCHANGED pme
           ELSE /\ pme' = IF cev
                          THEN [pme EXCEPT !.solve_work[gridIndex] =
                                   [energy |-> GridEnergy(gridIndex, step),
                                    virial |-> GridVirial(gridIndex, step)]]
                          ELSE pme
                /\ issued' = Append(issued, Stage("solve", gridIndex, "cpu", "YZX",
                                                  FALSE, PendingWriter(gridIndex)))
                /\ call' = [call EXCEPT !.events = Append(@, "host")]
                /\ UNCHANGED stream
    /\ pc' = "c2r"
    /\ UNCHANGED <<common, settings, c_streamQuerySupported, boxHistory, dev,
                   forceWithVirial, enerd, step, gridIndex, stepWork, lambdaQ,
                   executed, nReduce, nNotDone>>

\* Mutant of LoopContinues: the loop bound is off by one.
LoopContinues_OffByOne(g) == g <= common.ngrids

\* The condition of the loop over the grids, for the incremented index g.
LoopContinues(g) == g < common.ngrids

TransformC2R ==
    /\ pc = "c2r"
    /\ parallel_3dfft_execute_gpu_wrapper("c2r")
    /\ gridIndex' = gridIndex + 1
    /\ pc' = IF LoopContinues(gridIndex + 1) THEN "r2c" ELSE "gather"
    /\ UNCHANGED <<pme, common, settings, c_streamQuerySupported, boxHistory, dev,
                   forceWithVirial, enerd, step, stepWork, lambdaQ,
                   executed, nReduce, nNotDone>>

\* Mutant of CaughtAtLoopBoundary: the exception is swallowed and the stage
\* returns to its caller.
CaughtAtLoopBoundary_Swallowed == [pc |-> "gather", ret |-> "ok"]

\* GMX_CATCH_ALL_AND_EXIT_WITH_FATAL_ERROR: whatever the try block throws
\* ends the process.
CaughtAtLoopBoundary == [pc |-> "fatal", ret |-> "fatal"]

\* A stage of the loop body throws instead of completing (a failed launch,
\* a failed host transform or solve).
TransformThrows ==
    /\ pc \in {"r2c", "solve", "c2r"}
    /\ pc' = CaughtAtLoopBoundary.pc
    /\ call' = [call EXCEPT !.ret = CaughtAtLoopBoundary.ret,
                            !.events = Append(@, "exception")]
    /\ UNCHANGED <<pme, common, settings, c_streamQuerySupported, boxHistory,
                   stream, dev, forceWithVirial, enerd, step, gridIndex, stepWork,
                   lambdaQ, issued, executed, nReduce, nNotDone>>

\* Mutant of GatherSkipped: the early return is missing.
GatherSkipped_Never == FALSE

\* The early return of pme_gpu_launch_gather.
GatherSkipped == ~settings.performGPUGather

pme_gpu_launch_gather ==
    /\ pc = "gather"
    /\ IF ~pme_gpu_active
       THEN /\ pc' = "aborted"
            /\ call' = Call("gather", "abort", <<"assert">>)
            /\ UNCHANGED <<stream, issued>>
       ELSE /\ IF GatherSkipped
               THEN /\ call' = Call("gather", "ok", <<>>)
                    /\ UNCHANGED <<stream, issued>>
               ELSE /\ stream' = Append(stream, StreamOp("gather", 0, "none", FALSE,
                                            lambdaQ, settings.useGpuForceReduction))
                    /\ issued' = Append(issued, Stage("gather", 0, "gpu", "none",
                                            settings.useGpuForceReduction, FALSE))
                    /\ call' = Call("gather", "ok", <<"launch">>)
            /\ pc' = "finish"
    /\ UNCHANGED <<pme, common, settings, c_streamQuerySupported, boxHistory, dev,
                   forceWithVirial, enerd, step, gridIndex, stepWork, lambdaQ,
                   executed, nReduce, nNotDone>>

\* ------------------------------------------------------------- completion
\* Mutant of FetchLambda: with two grids the weights of the two states are
\* exchanged, so that selecting twice is not selecting once.
FetchLambda_Exchanged(lambda) ==
    IF common.ngrids > 1 THEN LambdaOne - lambda ELSE LambdaOne

\* Mutant of FetchLambda: the caller's lambda is passed on as it is.
FetchLambda_CallersLambda(lambda) == lambda

\* The lambda weighting factor handed to the output fetch.
FetchLambda(lambda) == IF common.ngrids > 1 THEN lambda ELSE LambdaOne

\* The energy or virial of the grids weighted by factor w (in units of
\* 1 / LambdaOne): the mix of both states with two grids, the single grid
\* scaled by w otherwise.
Weighted(src, w, field) ==
    IF common.ngrids = 2
    THEN (LambdaOne - w) * src[0][field] + w * src[1][field]
    ELSE w * src[0][field]

\* Mutant of pme_gpu_getOutput: the output always claims to hold forces.
pme_gpu_getOutput_AlwaysForces(d, cev, lambda) ==
    [haveForceOutput_ |-> TRUE, forces_ |-> d.h_forces,
     coulombEnergy_ |-> 0, coulombVirial_ |-> 0, coulombDvdl_ |-> 0]

\* pme_gpu_getOutput on device state d: forces are fetched from the staging
\* buffer when the reduction is host-side, energy, virial and dvdl when
\* computeEnergyAndVirial, from the device or from the host solve.
pme_gpu_getOutput(d, cev, lambda) ==
    LET src == IF settings.performGPUSolve THEN d.energy ELSE pme.solve_work
        haveForce == ~settings.useGpuForceReduction
    IN  [haveForceOutput_ |-> haveForce,
         forces_ |-> IF haveForce THEN d.h_forces ELSE <<>>,
         coulombEnergy_ |-> IF cev THEN Weighted(src, lambda, "energy") ELSE 0,
         coulombVirial_ |-> IF cev THEN Weighted(src, lambda, "virial") ELSE 0,
         coulombDvdl_ |-> IF cev /\ common.ngrids = 2
                          THEN LambdaOne * (src[1].energy - src[0].energy)
                          ELSE 0]

\* Mutant of sum_forces: the loop starts at the second particle.
sum_forces_FromSecond(f, forceToAdd) ==
    [i \in Atoms |->
        IF 1 < i /\ i <= Len(forceToAdd) THEN f[i] + forceToAdd[i] ELSE f[i]]

\* Mutant of sum_forces: assigns instead of accumulating.
sum_forces_Assign(f, forceToAdd) ==
    [i \in Atoms |-> IF i <= Len(forceToAdd) THEN forceToAdd[i] ELSE f[i]]

\* Mutant of ThreadRange: the ranges include their upper bound, so that
\* neighbouring threads share an index.
ThreadRange_Overlapping(t, end, nt) ==
    LET chunk == (end + nt - 1) \div nt
    IN  {i \in 1 .. end : t * chunk <= i - 1 /\ i - 1 <= (t + 1) * chunk}

\* schedule(static) of the loop over [0, end): thread t of nt gets one
\* contiguous chunk of ceil(end / nt) iterations (particle i of the model is
\* iteration i - 1).
ThreadRange(t, end, nt) ==
    LET chunk == (end + nt - 1) \div nt
    IN  {i \in 1 .. end : t * chunk <= i - 1 /\ i - 1 < (t + 1) * chunk}

\* sum_forces: every thread runs f[i] += forceToAdd[i] over its range of the
\* iterations below forceToAdd.size().
sum_forces(f, forceToAdd) ==
    [i \in Atoms |->
        LET hits == {t \in Threads : i \in ThreadRange(t, Len(forceToAdd), NThreads)}
        IN  IF hits = {} THEN f[i] ELSE f[i] + Cardinality(hits) * forceToAdd[i]]

\* Mutant of pme_gpu_reduce_outputs: the forces are summed whether or not
\* the output has them.
pme_gpu_reduce_outputs_AlwaysSums(cev, output, acc) ==
    LET a == IF cev
             THEN [acc EXCEPT !.fwv.virial_ = @ + output.coulombVirial_,
                              !.enerd.term = @ + output.coulombEnergy_,
                              !.enerd.dvdl_lin = @ + output.coulombDvdl_,
                              !.n.outputs = @ + 1]
             ELSE [acc EXCEPT !.n.outputs = @ + 1]
    IN  [a EXCEPT !.fwv.force_ = sum_forces(@, output.forces_),
                  !.n.forces = @ + 1]

\* pme_gpu_reduce_outputs on acc = [fwv, enerd, n]: the accumulators and
\* the count of reductions.
pme_gpu_reduce_outputs(cev, output, acc) ==
    LET a == IF cev
             THEN [acc EXCEPT !.fwv.virial_ = @ + output.coulombVirial_,
                              !.enerd.term = @ + output.coulombEnergy_,
                              !.enerd.dvdl_lin = @ + output.coulombDvdl_,
                              !.n.outputs = @ + 1]
             ELSE [acc EXCEPT !.n.outputs = @ + 1]
    IN  IF output.haveForceOutput_
        THEN [a EXCEPT !.fwv.force_ = sum_forces(@, output.forces_),
                       !.n.forces = @ + 1]
        ELSE a

\* The assertion that precedes both calls of pme_gpu_reduce_outputs.
ForceOutputAsserted(output) ==
    settings.useGpuForceReduction = ~output.haveForceOutput_

\* Mutant of StreamQueried: the platform's support is not looked at.
StreamQueried_IgnoresSupport(completionKind) == completionKind = "Check"

\* Poll makes the stream query when asked to check on a platform that
\* supports it ...
StreamQueried(completionKind) ==
    completionKind = "Check" /\ c_streamQuerySupported

\* Mutant of PollReturnsEarly: a poll that queries never gets past the query.
PollReturnsEarly_Always(completionKind) == StreamQueried(completionKind)

\* Mutant of PollReturnsEarly: the early return is missing.
PollReturnsEarly_Never(completionKind) == FALSE

\* ... and the query finds work still pending.
PollReturnsEarly(completionKind) ==
    StreamQueried(completionKind) /\ ~pme_gpu_stream_query

\* Mutant of NeedToSynchronize: poll never synchronizes.
NeedToSynchronize_Never(completionKind) == FALSE

\* needToSynchronize of a poll that did not return early: only a poll that
\* queried the stream can skip the synchronize.
NeedToSynchronize(completionKind) == ~StreamQueried(completionKind)

\* Mutant of PollAsserted: the assertion on the reduction mode is missing.
PollAsserted_OnlyActive == pme_gpu_active

\* The first assertions of pme_gpu_try_finish_task.
PollAsserted == pme_gpu_active /\ ~settings.useGpuForceReduction

\* What a completing call does after its wait: w is the stream and device
\* state after the wait, evs what the call did so far.
FetchAndReduce(name, completionKind, w, cev, lambda, evs) ==
    LET output == pme_gpu_getOutput(w.D.dev, cev, lambda)
        acc == pme_gpu_reduce_outputs(cev, output,
                   [fwv |-> [forceWithVirial EXCEPT !.force_ = w.D.force_],
                    enerd |-> enerd, n |-> nReduce])
    IN  /\ stream' = w.stream
        /\ dev' = w.D.dev
        /\ executed' = w.D.executed
        /\ IF ~ForceOutputAsserted(output)
           THEN /\ pc' = "aborted"
                /\ call' = [Call(name, "abort", evs \o <<"getOutput", "assert">>)
                                EXCEPT !.kind = completionKind, !.lambda = lambda,
                                       !.output = output]
                /\ forceWithVirial' = [forceWithVirial EXCEPT !.force_ = w.D.force_]
                /\ UNCHANGED <<enerd, nReduce>>
           ELSE /\ pc' = "reinit"
                /\ call' = [Call(name, "done", evs \o <<"getOutput", "reduce">>)
                                EXCEPT !.kind = completionKind, !.lambda = lambda,
                                       !.output = output]
                /\ forceWithVirial' = acc.fwv
                /\ enerd' = acc.enerd
                /\ nReduce' = acc.n

NoWait == [D |-> DevNow, stream |-> stream]

pme_gpu_try_finish_task(completionKind) ==
    /\ pc = "finish"
    /\ IF ~PollAsserted
       THEN /\ pc' = "aborted"
            /\ call' = [Call("poll", "abort", <<"assert">>) EXCEPT
                            !.kind = completionKind]
            /\ UNCHANGED <<stream, dev, executed, forceWithVirial, enerd, nReduce,
                           nNotDone>>
       ELSE IF PollReturnsEarly(completionKind)
       THEN /\ nNotDone < MaxPolls
            /\ nNotDone' = nNotDone + 1
            /\ call' = [Call("poll", "notdone", <<"query">>) EXCEPT
                            !.kind = completionKind]
            /\ UNCHANGED <<pc, stream, dev, executed, forceWithVirial, enerd,
                           nReduce>>
       ELSE LET needToSynchronize == NeedToSynchronize(completionKind)
            IN  /\ UNCHANGED nNotDone
                /\ FetchAndReduce("poll", completionKind,
                       IF needToSynchronize THEN pme_gpu_synchronize ELSE NoWait,
                       computeEnergyAndVirial(stepWork), FetchLambda(lambdaQ),
                       IF needToSynchronize THEN <<"synchronize">> ELSE <<"query">>)
    /\ UNCHANGED <<pme, common, settings, c_streamQuerySupported, boxHistory, step,
                   gridIndex, stepWork, lambdaQ, issued>>

Poll == \E completionKind \in CompletionKinds : pme_gpu_try_finish_task(completionKind)

\* The poll of a caller that has other work to do: it only checks.
PollCheck == pme_gpu_try_finish_task("Check")

\* Mutant of WaitNeedsSynchronize: the synchronize is made on every call.
WaitNeedsSynchronize_Always(cev) == TRUE

\* Mutant of WaitNeedsSynchronize: the forces are forgotten.
WaitNeedsSynchronize_IgnoresForces(cev) == cev

\* Mutant of WaitNeedsSynchronize: the energy and virial are forgotten.
WaitNeedsSynchronize_IgnoresEnergy(cev) == ~settings.useGpuForceReduction

\* pme_gpu_wait_finish_task synchronizes when there are outputs to wait for.
WaitNeedsSynchronize(cev) == ~settings.useGpuForceReduction \/ cev

\* pme_gpu_wait_and_reduce, with the pme_gpu_wait_finish_task it calls.
pme_gpu_wait_and_reduce ==
    /\ pc = "finish"
    /\ LET cev == computeEnergyAndVirial(stepWork)
           lambda == FetchLambda(lambdaQ)
       IN  IF ~pme_gpu_active
           THEN /\ pc' = "aborted"
                /\ call' = Call("block", "abort", <<"assert">>)
                /\ UNCHANGED <<stream, dev, executed, forceWithVirial, enerd,
                               nReduce>>
           ELSE FetchAndReduce("block", "none",
                    IF WaitNeedsSynchronize(cev) THEN pme_gpu_synchronize ELSE NoWait,
                    cev, FetchLambda(lambda),
                    IF WaitNeedsSynchronize(cev) THEN <<"synchronize">> ELSE <<>>)
    /\ UNCHANGED <<pme, common, settings, c_streamQuerySupported, boxHistory, step,
                   gridIndex, stepWork, lambdaQ, issued, nNotDone>>

\* pme_gpu_reinit_computation: the grids and the energy and virial are
\* cleared on the stream for the next step.
pme_gpu_reinit_computation ==
    /\ pc = "reinit"
    /\ IF ~pme_gpu_active
       THEN /\ pc' = "aborted"
            /\ call' = Call("reinit", "abort", <<"assert">>)
            /\ UNCHANGED <<stream, step>>
       ELSE /\ stream' = stream \o <<StageOp("clear_grids", 0),
                                     StageOp("clear_energy_virial", 0)>>
            /\ call' = Call("reinit", "ok", <<"launch", "launch">>)
            /\ pc' = IF step < MaxSteps THEN "prepare" ELSE "end"
            /\ step' = IF step < MaxSteps THEN step + 1 ELSE step
    /\ UNCHANGED <<pme, common, settings, c_streamQuerySupported, boxHistory, dev,
                   forceWithVirial, enerd, gridIndex, stepWork, lambdaQ,
                   issued, executed, nReduce, nNotDone>>

Next ==
    \/ DeviceExec
    \/ Prepare
    \/ Spread
    \/ TransformEnter
    \/ TransformR2C
    \/ TransformSolve
    \/ TransformC2R
    \/ TransformThrows
    \/ pme_gpu_launch_gather
    \/ Poll
    \/ pme_gpu_wait_and_reduce
    \/ pme_gpu_reinit_computation

\* The same pipeline driven by a run that keeps the record of its boxes.
NextBoxes ==
    \/ DeviceExec
    \/ PrepareBoxes
    \/ Spread
    \/ TransformEnter
    \/ TransformR2C
    \/ TransformSolve
    \/ TransformC2R
    \/ TransformThrows
    \/ pme_gpu_launch_gather
    \/ Poll
    \/ pme_gpu_wait_and_reduce
    \/ pme_gpu_reinit_computation

\* The same pipeline driven by a run that keeps the record of its reduction
\* flags.
NextModes ==
    \/ DeviceExec
    \/ PrepareModes
    \/ Spread
    \/ TransformEnter
    \/ TransformR2C
    \/ TransformSolve
    \/ TransformC2R
    \/ TransformThrows
    \/ pme_gpu_launch_gather
    \/ Poll
    \/ pme_gpu_wait_and_reduce
    \/ pme_gpu_reinit_computation

\* The same pipeline driven by a run with a static box.
NextEnergy ==
    \/ DeviceExec
    \/ PrepareEnergy
    \/ Spread
    \/ TransformEnter
    \/ TransformR2C
    \/ TransformSolve
    \/ TransformC2R
    \/ TransformThrows
    \/ pme_gpu_launch_gather
    \/ Poll
    \/ pme_gpu_wait_and_reduce
    \/ pme_gpu_reinit_computation

\* The pipeline driven by a caller that completes every step by polling
\* with Check until the poll returns "done", doing other work in between.
NextPolling ==
    \/ DeviceExec
    \/ PreparePolling
    \/ Spread
    \/ TransformEnter
    \/ TransformR2C
    \/ TransformSolve
    \/ TransformC2R
    \/ TransformThrows
    \/ pme_gpu_launch_gather
    \/ PollCheck
    \/ pme_gpu_reinit_computation

\* A solver that passes every precondition of the stages: device mode on a
\* single rank, Coulomb PME, one grid or the two grids of a dual-FEP run.
ValidSetup ==
    /\ pme.runMode = "GPU" /\ pme.nnodes = 1 /\ pme.ndecompdim = 0
    /\ pme.doCoulomb /\ ~pme.bPPnode
    /\ common.ngrids <= 2 /\ pme.bFEP_q = (common.ngrids = 2)

\* The completion protocol: every stage on the device, with and without the
\* gather, with and without stream-query support, one and two grids.
Init ==
    /\ InitAll
    /\ ValidSetup
    /\ settings.performGPUFFT /\ settings.performGPUSolve

Spec == Init /\ [][Next]_vars

\* The stage sequencer: every choice of device and host-threaded FFT and
\* solve, one and two grids, on a platform with stream query.
InitStages ==
    /\ InitAll
    /\ ValidSetup
    /\ settings.performGPUGather /\ c_streamQuerySupported

SpecStages == InitStages /\ [][Next]_vars

\* The box bookkeeping: a single-grid solver with host-threaded FFT, with
\* the solve on the device or on the host, in a run of steps 0 .. MaxSteps
\* that keeps the record of the boxes it passed.
InitBoxes ==
    /\ Constructed
    /\ ValidSetup
    /\ common.ngrids = 1
    /\ ~settings.performGPUFFT /\ settings.performGPUGather
    /\ c_streamQuerySupported
    /\ pc = "prepare"
    /\ step = 0

SpecBoxes == InitBoxes /\ [][NextBoxes]_vars

\* The reduction mode: a single-grid solver with every stage on the device,
\* in a run of steps 1 .. MaxSteps that keeps the record of the reduction
\* flags it passed.
InitModes ==
    /\ InitAll
    /\ ValidSetup
    /\ common.ngrids = 1
    /\ settings.performGPUFFT /\ settings.performGPUSolve
    /\ settings.performGPUGather
    /\ c_streamQuerySupported

SpecModes == InitModes /\ [][NextModes]_vars

\* Energy and virial: the solve and the FFT on the device or on the host,
\* one and two grids, every workload of a run with a static box.
SpecEnergy == InitStages /\ [][NextEnergy]_vars

\* The poll-and-retry loop: every stage on the device, one and two grids, on
\* a platform with stream query.  The device eventually executes what is at
\* the head of the stream (nothing is cancelled), and the caller eventually
\* polls again.
InitPolling ==
    /\ InitAll
    /\ ValidSetup
    /\ settings.performGPUFFT /\ settings.performGPUSolve
    /\ settings.performGPUGather
    /\ c_streamQuerySupported

SpecPolling ==
    /\ InitPolling
    /\ [][NextPolling]_vars
    /\ WF_vars(DeviceExec)
    /\ WF_vars(PollCheck)

\* The preconditions of the stage entry points: every solver that can be
\* handed to them, valid or not, with all stages on the device; the first
\* entry point called on it is any of the four, in the last step of a run.
StageEntryPoints == {"prepare", "spread", "transform", "gather"}

InitSetup ==
    /\ Constructed
    /\ settings.performGPUFFT /\ settings.performGPUSolve
    /\ settings.performGPUGather
    /\ c_streamQuerySupported
    /\ pc \in StageEntryPoints
    /\ step = MaxSteps

SpecSetup == InitSetup /\ [][Next]_vars

\* ----------------------------------------------------------------- claims
\* Did call c do ev, and how many times?
DidIn(c, ev) == \E k \in 1 .. Len(c.events) : c.events[k] = ev
TimesIn(c, ev) == Cardinality({k \in 1 .. Len(c.events) : c.events[k] = ev})

IsPrefix(s, t) == Len(s) <= Len(t) /\ SubSeq(t, 1, Len(s)) = s

\* The step's device output, as the step's inputs determine it.
StepForce(i) == GatherForce(i, lambdaQ, step)
StepEnergy ==
    IF common.ngrids = 2
    THEN (LambdaOne - lambdaQ) * GridEnergy(0, step) + lambdaQ * GridEnergy(1, step)
    ELSE LambdaOne * GridEnergy(0, step)
StepVirial ==
    IF common.ngrids = 2
    THEN (LambdaOne - lambdaQ) * GridVirial(0, step) + lambdaQ * GridVirial(1, step)
    ELSE LambdaOne * GridVirial(0, step)
StepDvdl ==
    IF common.ngrids = 2
    THEN LambdaOne * (GridEnergy(1, step) - GridEnergy(0, step))
    ELSE 0

\* C1: a poll that checks, on a platform with stream query, while work is
\* pending on the stream returns "not done" having only queried: no fetch,
\* no reduction, and force array, virial, energy term, dvdl, persisted box,
\* settings, device output state and the stream itself are as before.
C1_PollNotDoneChangesNothing ==
    [][(/\ pme_gpu_try_finish_task("Check")
        /\ PollAsserted
        /\ c_streamQuerySupported
        /\ stream # <<>>)
       => (/\ call'.ret = "notdone"
           /\ call'.events = <<"query">>
           /\ UNCHANGED <<forceWithVirial, enerd, common, settings, dev, stream,
                          pme, executed, nReduce, pc>>)]_vars

C1_Witness ==
    /\ call.name = "poll" /\ call.ret = "notdone"
    /\ stream # <<>>
    /\ computeEnergyAndVirial(stepWork)
    /\ settings.performGPUGather

\* C2: whatever number of polls returned "not done" before it, the call that
\* completes a step (a poll returning "done", or a block) leaves the
\* accumulators holding the step's output added exactly once.
C2_OutputAddedOnce ==
    (pc = "reinit") =>
        LET cev == computeEnergyAndVirial(stepWork)
            gathered == \E k \in 1 .. Len(executed) : executed[k].op = "gather"
        IN  /\ enerd.term = OtherTerms.energy + (IF cev THEN StepEnergy ELSE 0)
            /\ enerd.dvdl_lin = OtherTerms.dvdl + (IF cev THEN StepDvdl ELSE 0)
            /\ forceWithVirial.virial_
                   = OtherTerms.virial + (IF cev THEN StepVirial ELSE 0)
            /\ \A i \in Atoms :
                   forceWithVirial.force_[i] =
                       OtherForce(i)
                       + (IF settings.performGPUGather
                             /\ (~settings.useGpuForceReduction \/ gathered)
                          THEN StepForce(i) ELSE 0)
            /\ nReduce.outputs = 1

C2_Witness ==
    /\ pc = "reinit"
    /\ nNotDone = MaxPolls
    /\ call.name = "poll" /\ call.ret = "done"
    /\ computeEnergyAndVirial(stepWork)
    /\ settings.performGPUGather
    /\ step = MaxSteps

\* C3: a poll returns "done" only with the stream empty, after a stream query
\* that reported completion or after a synchronize, and having fetched the
\* output and reduced it exactly once.
C3_PollDoneMeansFinished ==
    (call.name = "poll" /\ call.ret = "done") =>
        /\ stream = <<>>
        /\ \/ call.events = <<"query", "getOutput", "reduce">>
           \/ call.events = <<"synchronize", "getOutput", "reduce">>
        /\ nReduce.outputs = 1
        /\ \A k \in 1 .. Len(issued) :
               issued[k].where = "gpu" =>
                   \E m \in 1 .. Len(executed) :
                       /\ executed[m].op = issued[k].op
                       /\ executed[m].grid = issued[k].grid

C3_Witness ==
    /\ call.name = "poll" /\ call.ret = "done"
    /\ call.events = <<"query", "getOutput", "reduce">>
    /\ Len(executed) > 1

\* C4 as stated: every block call synchronizes the stream before it fetches.
C4_BlockAlwaysSynchronizes ==
    (call.name = "block" /\ DidIn(call, "getOutput")) =>
        call.events[1] = "synchronize"

\* C4, amended: a block call synchronizes the stream, and then before the
\* fetch, exactly when the force reduction is host-side or energy or virial
\* is computed; with device-side reduction and neither, it fetches without.
C4_BlockSynchronizesForOutputs ==
    (call.name = "block" /\ DidIn(call, "getOutput")) =>
        IF ~settings.useGpuForceReduction
           \/ stepWork.computeEnergy \/ stepWork.computeVirial
        THEN /\ SubSeq(call.events, 1, 2) = <<"synchronize", "getOutput">>
             /\ stream = <<>>
        ELSE ~DidIn(call, "synchronize")

C4_Witness ==
    /\ call.name = "block" /\ call.ret = "done"
    /\ call.events = <<"getOutput", "reduce">>
    /\ settings.useGpuForceReduction
    /\ stream # <<>>

\* The two ways a step's forces reach the destination force array.
InPlaceLaunched ==
    Cardinality({k \in 1 .. Len(issued) :
                     issued[k].op = "gather" /\ issued[k].inPlace})
InPlaceExecuted ==
    Cardinality({k \in 1 .. Len(executed) : executed[k].op = "gather"})

\* C5 as stated: in every completed step exactly one of device in-place
\* accumulation and host-side summation takes place, whatever
\* useGpuForceReduction and performGPUGather are.
C5_ExactlyOneReductionAlways ==
    (pc = "reinit") => InPlaceLaunched + nReduce.forces = 1

\* C5, amended: in every completed step with performGPUGather on, exactly
\* one of the two takes place, the device one iff useGpuForceReduction; with
\* performGPUGather off nothing is accumulated on the device, the host sums
\* iff the reduction is host-side, and the force array is left as it was.
C5_ExactlyOneReductionWhenGathering ==
    (pc = "reinit") =>
        IF settings.performGPUGather
        THEN /\ InPlaceLaunched + nReduce.forces = 1
             /\ (InPlaceLaunched = 1) = settings.useGpuForceReduction
             /\ \A i \in Atoms :
                    forceWithVirial.force_[i] =
                        OtherForce(i)
                        + (IF settings.useGpuForceReduction /\ InPlaceExecuted = 0
                           THEN 0 ELSE StepForce(i))
        ELSE /\ InPlaceLaunched = 0
             /\ (nReduce.forces = 1) = ~settings.useGpuForceReduction
             /\ forceWithVirial.force_ = OtherForces

C5_Witness ==
    /\ pc = "reinit"
    /\ settings.performGPUGather
    /\ settings.useGpuForceReduction
    /\ InPlaceLaunched = 1 /\ InPlaceExecuted = 1
    /\ nReduce.forces = 0
    /\ step = MaxSteps

C7_PollRejectsDeviceReduction ==
    [][\A kind \in CompletionKinds :
           (pme_gpu_try_finish_task(kind) /\ settings.useGpuForceReduction)
           => (/\ pc' = "aborted"
               /\ call'.ret = "abort"
               /\ call'.events = <<"assert">>
               /\ UNCHANGED <<stream, dev, forceWithVirial, enerd, executed,
                              nReduce>>)]_vars

C7_Witness ==
    /\ call.name = "poll" /\ call.ret = "abort" /\ call.kind = "Wait"
    /\ settings.useGpuForceReduction
    /\ stream # <<>>

\* The stages of a step in program order: spread, then for each grid in
\* increasing order its forward transform, solve and inverse transform, then
\* (unless the gather is switched off) gather.
StageAt(k) ==
    IF k = 1 THEN [op |-> "spread", grid |-> 0]
    ELSE IF k > 3 * common.ngrids + 1 THEN [op |-> "gather", grid |-> 0]
    ELSE [op |-> <<"r2c", "solve", "c2r">>[((k - 2) % 3) + 1],
          grid |-> (k - 2) \div 3]

StageSequence ==
    [k \in 1 .. (3 * common.ngrids + 1
                 + (IF settings.performGPUGather THEN 1 ELSE 0)) |-> StageAt(k)]

\* Operation and grid of each entry of a log of stages or of stream ops.
Names(s) == [k \in 1 .. Len(s) |-> [op |-> s[k].op, grid |-> s[k].grid]]

IsDeviceStage(s) == s.where = "gpu"
IsStepStage(o) == o.op \in StageNames /\ o.step = step

\* Does the stage run on the device, by the settings?
OnDevice(op) ==
    CASE op \in {"r2c", "c2r"} -> settings.performGPUFFT
      [] op = "solve" -> settings.performGPUSolve
      [] OTHER -> TRUE

C9_WaitForSpreadIffHostFFT ==
    [][(pc \in {"transform", "r2c", "solve", "c2r"} /\ pc' # pc)
       => IF settings.performGPUFFT
          THEN /\ ~DidIn(call', "sync_spread_grid")
               /\ executed' = executed
               /\ dev' = dev
               /\ IsPrefix(stream, stream')
          ELSE /\ DidIn(call', "sync_spread_grid")
               /\ pc = "transform" =>
                      /\ call'.events = <<"sync_spread_grid">>
                      /\ LET S == {k \in 1 .. Len(stream') : stream'[k].op = "spread"}
                         IN  S = {}
               /\ \E m \in 1 .. Len(executed') : executed'[m].op = "spread"
               /\ \A k \in 1 .. Len(issued') :
                      issued'[k].op \in {"r2c", "c2r"}
                          => issued'[k].where = "cpu"]_vars

C9_Witness ==
    /\ call.name = "transform"
    /\ ~settings.performGPUFFT
    /\ call.events[1] = "sync_spread_grid"
    /\ \E k \in 1 .. Len(issued) :
           /\ issued[k].op = "r2c" /\ issued[k].grid = 1
           /\ issued[k].where = "cpu"
    /\ step = MaxSteps

\* The six independent entries of a box: box[i][j] with j <= i.
LowerTriangle ==
    {<<XX, XX>>, <<YY, XX>>, <<YY, YY>>, <<ZZ, XX>>, <<ZZ, YY>>, <<ZZ, ZZ>>}

\* C10: a prepare that passes its preconditions updates the device's input
\* box if and only if haveDynamicBox is set or one of the six lower-triangular
\* entries of the box differs from the persisted previous box; a box that
\* differs from it in upper-triangular entries only does not, with
\* haveDynamicBox off, update it.
C10_BoxUpdateIffLowerTriangleChanged ==
    [][(pc = "prepare" /\ pc' = "spread")
       => LET changed == \E p \in LowerTriangle :
                             call'.box[p[1]][p[2]] # common.previousBox[p[1]][p[2]]
              update == call'.haveDynamicBox \/ changed
          IN  /\ DidIn(call', "update_input_box") = update
              /\ dev' = IF update THEN [dev EXCEPT !.box = call'.box] ELSE dev]_vars

C10_Witness ==
    /\ call.name = "prepare" /\ call.ret = "ok"
    /\ step = MaxSteps
    /\ call.box = BoxC
    /\ ~call.haveDynamicBox
    /\ ~DidIn(call, "update_input_box")
    /\ dev.box = BoxA
    /\ \E i, j \in Dims : j > i /\ call.box[i][j] # common.previousBox[i][j]

\* Has the prepare call just made passed its preconditions?
PreparePassed == call.name = "prepare" /\ call.ret = "ok"

\* C11: after every prepare call that passes its preconditions the persisted
\* previous box equals the box passed in all six lower-triangular entries,
\* whether or not the update was triggered and whatever haveDynamicBox is.
C11_PreviousBoxAlwaysCopied ==
    [][(pc = "prepare" /\ pc' = "spread")
       => \A p \in LowerTriangle :
              common'.previousBox[p[1]][p[2]] = call'.box[p[1]][p[2]]]_vars

C11_Witness ==
    /\ PreparePassed
    /\ Len(boxHistory) = 2
    /\ boxHistory[1] = [box |-> BoxB, haveDynamicBox |-> FALSE]
    /\ boxHistory[2] = [box |-> BoxC, haveDynamicBox |-> TRUE]
    /\ call.box = BoxC
    /\ \A p \in LowerTriangle : common.previousBox[p[1]][p[2]] = BoxC[p[1]][p[2]]

\* Were all the prepare calls of record h made with haveDynamicBox off?
AllStatic(h) == \A k \in 1 .. Len(h) : ~h[k].haveDynamicBox

\* Do boxes a and b differ in one of the six lower-triangular entries?
DifferBelow(a, b) == \E p \in LowerTriangle : a[p[1]][p[2]] # b[p[1]][p[2]]

\* C12: in a sequence of prepare calls made with haveDynamicBox off, the
\* first call triggers the recompute (the box goes to the device and, with a
\* host solve, the host reciprocal box is recomputed), a call with the box of
\* the call before it does not, and a call whose box differs from the one of
\* the call before it in a lower-triangular entry does, also when it returns
\* to a box passed earlier.
C12_RecomputeFollowsBoxSequence ==
    [][(pc = "prepare" /\ pc' = "spread" /\ AllStatic(boxHistory'))
       => LET n == Len(boxHistory')
              box == boxHistory'[n].box
              triggered == DidIn(call', "update_input_box")
          IN  /\ n = 1 => triggered
              /\ (n > 1 /\ box = boxHistory'[n - 1].box) => ~triggered
              /\ (n > 1 /\ DifferBelow(box, boxHistory'[n - 1].box)) => triggered
              /\ triggered => dev'.box = box
              /\ ~triggered => dev' = dev /\ pme' = pme
              /\ ~settings.performGPUSolve =>
                     (DidIn(call', "recipbox") = triggered)]_vars

C12_Witness ==
    /\ PreparePassed
    /\ boxHistory = <<[box |-> BoxA, haveDynamicBox |-> FALSE],
                      [box |-> BoxB, haveDynamicBox |-> FALSE],
                      [box |-> BoxA, haveDynamicBox |-> FALSE]>>
    /\ call.events = <<"update_input_box", "recipbox">>
    /\ dev.box = BoxA
    /\ ~settings.performGPUSolve

\* The grid count the spec asks for: one grid, or two grids with dual-FEP
\* Coulomb.
GridCountAsSpecified ==
    IF pme.bFEP_q THEN common.ngrids = 2 ELSE common.ngrids = 1

\* C13: spread accepts one grid without dual-FEP Coulomb and two grids with
\* it, and for every other combination of grid count and dual-FEP flag it
\* ends in the contract violation having launched nothing.
C13_SpreadRejectsOtherGridCounts ==
    [][(pc = "spread" /\ pc' # pc /\ ~GridCountAsSpecified)
       => (/\ pc' = "aborted"
           /\ call'.name = "spread"
           /\ call'.events = <<"assert">>
           /\ UNCHANGED <<stream, issued, dev>>)]_vars

\* C14: with performGPUGather off the gather stage enqueues nothing and
\* changes nothing, and the call that completes the step (a poll returning
\* "done", or a block) leaves the destination force array as the engine
\* handed it over: the pipeline contributes no force in that step.
C14_NoGatherNoForces ==
    [][~settings.performGPUGather
       => /\ (pc = "gather" /\ pc' # pc /\ pme_gpu_active)
                 => /\ pc' = "finish"
                    /\ call'.events = <<>>
                    /\ UNCHANGED <<pme, common, settings, stream, dev,
                                   forceWithVirial, enerd, issued, executed,
                                   nReduce>>
          /\ (pc = "finish" /\ pc' = "reinit")
                 => /\ forceWithVirial'.force_ = forceWithVirial.force_
                    /\ forceWithVirial'.force_ = OtherForces
                    /\ \A k \in 1 .. Len(issued) : issued[k].op # "gather"]_vars

C14_Witness ==
    /\ ~settings.performGPUGather
    /\ ~settings.useGpuForceReduction
    /\ pc = "reinit"
    /\ call.name = "poll" /\ call.ret = "done"
    /\ nReduce.forces = 1
    /\ forceWithVirial.force_ = OtherForces
    /\ step = MaxSteps

\* What a single-grid solver's fetch returns and what its completing call
\* leaves in the accumulators, written without the caller's lambda.
SingleGridOutput ==
    LET cev == computeEnergyAndVirial(stepWork)
        host == ~settings.useGpuForceReduction
    IN  [haveForceOutput_ |-> host,
         forces_ |-> IF ~host THEN <<>>
                     ELSE [i \in Atoms |->
                              IF settings.performGPUGather
                              THEN LambdaOne * GridForce(0, i, step) ELSE 0],
         coulombEnergy_ |-> IF cev THEN LambdaOne * GridEnergy(0, step) ELSE 0,
         coulombVirial_ |-> IF cev THEN LambdaOne * GridVirial(0, step) ELSE 0,
         coulombDvdl_ |-> 0]

SingleGridForces ==
    [i \in Atoms |->
        OtherForce(i)
        + (IF settings.performGPUGather
              /\ (~settings.useGpuForceReduction \/ InPlaceExecuted = 1)
           THEN LambdaOne * GridForce(0, i, step) ELSE 0)]

\* C15: on the poll and on the block path the weighting factor handed to
\* the output fetch is the caller's lambda with two grids and 1.0 with one;
\* with one grid the fetched output and the accumulators the completing call
\* leaves are the same whatever lambda the caller passed.
C15_LambdaOnlyWithTwoGrids ==
    (call.name \in {"poll", "block"} /\ DidIn(call, "getOutput")) =>
        /\ call.lambda = IF common.ngrids = 2 THEN lambdaQ ELSE LambdaOne
        /\ common.ngrids = 1 =>
               /\ call.output = SingleGridOutput
               /\ pc = "reinit" =>
                      /\ forceWithVirial.force_ = SingleGridForces
                      /\ forceWithVirial.virial_
                             = OtherTerms.virial + SingleGridOutput.coulombVirial_
                      /\ enerd.term = OtherTerms.energy + SingleGridOutput.coulombEnergy_
                      /\ enerd.dvdl_lin = OtherTerms.dvdl

C15_Witness ==
    /\ call.name = "block" /\ call.ret = "done"
    /\ common.ngrids = 1
    /\ lambdaQ # LambdaOne
    /\ call.lambda = LambdaOne
    /\ computeEnergyAndVirial(stepWork)
    /\ settings.performGPUGather /\ ~settings.useGpuForceReduction
    /\ step = MaxSteps

\* Energy or virial is requested of the step.
EnergyOrVirialRequested == stepWork.computeEnergy \/ stepWork.computeVirial

\* C16: the solve of the transform stage, the poll and the block compute
\* energy and virial exactly when computeEnergy or computeVirial is set in
\* the step's workload; the reduction of the completing call then adds the
\* fetched virial, Coulomb energy and dvdl to their accumulators, all three
\* when it is and none of them when it is not.
C16_EnergyAndVirialTogether ==
    [][/\ (pc = "solve" /\ pc' = "c2r")
             => IF settings.performGPUSolve
                THEN stream'[Len(stream')].cev = EnergyOrVirialRequested
                ELSE pme'.solve_work[gridIndex] =
                         IF EnergyOrVirialRequested
                         THEN [energy |-> GridEnergy(gridIndex, step),
                               virial |-> GridVirial(gridIndex, step)]
                         ELSE pme.solve_work[gridIndex]
       /\ (pc = "finish" /\ pc' = "reinit")
             => LET output == call'.output
                IN  IF EnergyOrVirialRequested
                    THEN /\ output.coulombEnergy_ = StepEnergy
                         /\ output.coulombVirial_ = StepVirial
                         /\ output.coulombDvdl_ = StepDvdl
                         /\ forceWithVirial'.virial_
                                = forceWithVirial.virial_ + output.coulombVirial_
                         /\ enerd'.term = enerd.term + output.coulombEnergy_
                         /\ enerd'.dvdl_lin = enerd.dvdl_lin + output.coulombDvdl_
                    ELSE /\ forceWithVirial'.virial_ = forceWithVirial.virial_
                         /\ enerd' = enerd]_vars

C16_Witness ==
    /\ pc = "reinit"
    /\ stepWork.computeVirial /\ ~stepWork.computeEnergy
    /\ common.ngrids = 2
    /\ ~settings.performGPUSolve
    /\ call.output.coulombDvdl_ # 0
    /\ enerd.dvdl_lin = OtherTerms.dvdl + call.output.coulombDvdl_
    /\ enerd.term = OtherTerms.energy + call.output.coulombEnergy_
    /\ forceWithVirial.virial_ = OtherTerms.virial + call.output.coulombVirial_

\* The force sequences a fetch can return for a destination of NAtoms
\* entries when forces is the sequence for all of them: its prefixes.
ShortForces(forces) ==
    {SubSeq(forces, 1, n) : n \in 0 .. Len(forces)}

\* C17: the reduction adds the fetched forces on the host exactly when the
\* output has them.  Then every index of the fetched sequence is in the
\* range of exactly one thread and has its force added once to the entry of
\* that index, and had the fetch returned only a prefix of these forces the
\* entries beyond its length would stay as they are; when the device reduced
\* the forces the reduction does not add and does not write the force array.
C17_HostSumIffForceOutput ==
    [][(pc = "finish" /\ pc' = "reinit")
       => LET output == call'.output
              waited == IF DidIn(call', "synchronize")
                        THEN pme_gpu_synchronize.D.force_
                        ELSE forceWithVirial.force_
          IN  /\ IF output.haveForceOutput_
                 THEN /\ nReduce'.forces = nReduce.forces + 1
                      /\ Len(output.forces_) = NAtoms
                      /\ \A i \in Atoms :
                             forceWithVirial'.force_[i] = waited[i] + output.forces_[i]
                      /\ \A add \in ShortForces(output.forces_) :
                             /\ \A i \in 1 .. Len(add) :
                                    Cardinality({t \in Threads :
                                        i \in ThreadRange(t, Len(add), NThreads)}) = 1
                             /\ sum_forces(waited, add) =
                                    [i \in Atoms |->
                                        IF i <= Len(add) THEN waited[i] + add[i]
                                        ELSE waited[i]]
                 ELSE /\ nReduce'.forces = nReduce.forces
                      /\ forceWithVirial'.force_ = waited]_vars

C17_Witness ==
    /\ pc = "reinit"
    /\ call.output.haveForceOutput_
    /\ settings.performGPUGather
    /\ nReduce.forces = 1
    /\ \A i \in Atoms :
           /\ call.output.forces_[i] = StepForce(i)
           /\ forceWithVirial.force_[i] = OtherForce(i) + StepForce(i)
    /\ step = 1

\* The step's completing call has returned and the device has run the
\* step's gather, if one was launched.
StepForcesFinal ==
    /\ pc \in {"reinit", "end"}
    /\ LastIndexOf("gather") = 0

\* C18: for the same force contributions and the same initial force array a
\* step ends with the same destination force array whether the forces were
\* accumulated in place by the device (useGpuForceReduction on) or summed by
\* the host from the fetched forces (off): the initial array plus the step's
\* forces once, an expression in which the flag does not occur.
C18_ReductionPathsAgree ==
    StepForcesFinal =>
        \A i \in Atoms :
            forceWithVirial.force_[i] =
                OtherForce(i) + (IF settings.performGPUGather THEN StepForce(i) ELSE 0)

C18_Witness ==
    /\ StepForcesFinal
    /\ pc = "reinit"
    /\ settings.useGpuForceReduction
    /\ settings.performGPUGather
    /\ call.name = "block" /\ call.events = <<"getOutput", "reduce">>
    /\ InPlaceExecuted = 1
    /\ nReduce.forces = 0
    /\ common.ngrids = 2
    /\ \A i \in Atoms : forceWithVirial.force_[i] = OtherForce(i) + StepForce(i)

\* C19: an exception thrown in the loop over the grids, by the forward
\* transform, the solve or the inverse transform of any grid, ends the
\* process at the loop boundary: the transform stage does not return, no
\* stage of this or a later grid is launched after it, nothing is retried
\* and no call follows.
C19_ExceptionInLoopIsFatal ==
    [][/\ TransformThrows
             => /\ pc' = "fatal"
                /\ call'.name = "transform" /\ call'.ret = "fatal"
                /\ UNCHANGED <<stream, issued, gridIndex, forceWithVirial, enerd>>
       /\ pc = "fatal"
             => /\ pc' = "fatal"
                /\ UNCHANGED <<call, issued, gridIndex, enerd, nReduce, step>>]_vars

C19_Witness ==
    /\ pc = "fatal"
    /\ call.name = "transform" /\ call.ret = "fatal"
    /\ call.events = <<"launch", "launch", "exception">>
    /\ common.ngrids = 2 /\ gridIndex = 0
    /\ Len(issued) = 3
    /\ stream = <<>>

\* C20: each of the stage entry points prepare, spread, transform and gather,
\* called on a solver whose run mode is CPU, ends in the contract violation
\* before it enqueues anything or runs a host-threaded stage.
C20_StagesRequireDeviceMode ==
    [][(pc \in StageEntryPoints /\ pc' # pc /\ pme.runMode = "CPU")
       => (/\ pc' = "aborted"
           /\ call'.ret = "abort"
           /\ call'.events = <<"assert">>
           /\ UNCHANGED <<stream, issued, dev, executed>>)]_vars

\* The host reciprocal box and cell volume derived from a box.
HostRecipbox(box) == invertBoxMatrix(scaleBox(box))
HostBoxVolume(box) ==
    scaleBox(box)[XX][XX] * scaleBox(box)[YY][YY] * scaleBox(box)[ZZ][ZZ]

\* C21: a prepare that passes its preconditions writes the host reciprocal
\* box and cell volume exactly when the box update is triggered and the solve
\* is not device-executed, and then to the values derived from the box
\* passed; with the solve on the device, or without a trigger, it leaves both
\* as they were.  The box is pushed to the device on every trigger, whatever
\* performGPUSolve is.
C21_HostBoxWrittenOnlyForHostSolve ==
    [][(pc = "prepare" /\ pc' = "spread")
       => LET box == call'.box
              triggered == call'.haveDynamicBox \/ DifferBelow(box, common.previousBox)
          IN  /\ DidIn(call', "update_input_box") = triggered
              /\ triggered => dev'.box = box
              /\ DidIn(call', "recipbox") = (triggered /\ ~settings.performGPUSolve)
              /\ IF triggered /\ ~settings.performGPUSolve
                 THEN /\ pme'.recipbox = HostRecipbox(box)
                      /\ pme'.boxVolume = HostBoxVolume(box)
                 ELSE /\ pme'.recipbox = pme.recipbox
                      /\ pme'.boxVolume = pme.boxVolume]_vars

C21_Witness ==
    /\ PreparePassed
    /\ settings.performGPUSolve
    /\ Len(boxHistory) = 2
    /\ boxHistory[2] = [box |-> BoxB, haveDynamicBox |-> TRUE]
    /\ call.events = <<"update_input_box">>
    /\ dev.box = BoxB
    /\ pme.recipbox = ZeroBox /\ pme.boxVolume = 0

\* The device solves launched in this step.
DeviceSolves ==
    {k \in 1 .. Len(issued) : issued[k].op = "solve" /\ issued[k].where = "gpu"}

\* C22 as stated: the device-executed solve of every grid uses the Z-Y-X
\* ordering when a spatial decomposition is active and X-Y-Z otherwise.
C22_DeviceSolveOrderingZYX ==
    \A k \in DeviceSolves :
        issued[k].ordering = IF settings.useDecomposition THEN "ZYX" ELSE "XYZ"

\* C22, amended: the device-executed solve of every grid uses the Y-Z-X
\* ordering (GridOrdering::YZX) when a spatial decomposition is active and
\* X-Y-Z otherwise, and the solve is enqueued with that ordering.
C22_DeviceSolveOrderingYZX ==
    /\ \A k \in DeviceSolves :
           issued[k].ordering = IF settings.useDecomposition THEN "YZX" ELSE "XYZ"
    /\ \A k \in 1 .. Len(stream) :
           (stream[k].op = "solve" /\ stream[k].step = step)
               => stream[k].ordering
                      = IF settings.useDecomposition THEN "YZX" ELSE "XYZ"

C22_Witness ==
    /\ settings.useDecomposition
    /\ common.ngrids = 2
    /\ pc = "finish"
    /\ \E k \in DeviceSolves : issued[k].grid = 1 /\ issued[k].ordering = "YZX"
    /\ \E k \in DeviceSolves : issued[k].grid = 0 /\ issued[k].ordering = "YZX"

\* What pme_gpu_wait_and_reduce leaves when called in the current state:
\* the wait of pme_gpu_wait_finish_task, its fetch with the lambda selected
\* in both functions, and the reduction.
BlockCalledHere ==
    LET cev == computeEnergyAndVirial(stepWork)
        w == IF WaitNeedsSynchronize(cev) THEN pme_gpu_synchronize ELSE NoWait
        output == pme_gpu_getOutput(w.D.dev, cev, FetchLambda(FetchLambda(lambdaQ)))
        acc == pme_gpu_reduce_outputs(cev, output,
                   [fwv |-> [forceWithVirial EXCEPT !.force_ = w.D.force_],
                    enerd |-> enerd, n |-> nReduce])
    IN  [forceWithVirial |-> acc.fwv, enerd |-> acc.enerd, stream |-> w.stream,
         dev |-> w.D.dev, output |-> output]

\* The poll degrades to a synchronizing call.
PollDegraded(completionKind) ==
    ~c_streamQuerySupported \/ completionKind # "Check"

\* C23: on a platform without stream-query support, or with a completion
\* kind other than Check, a poll that passes its preconditions never returns
\* "not done": it synchronizes the stream, fetches, reduces and returns
\* "done", and leaves the accumulators, the stream and the device state as a
\* block call made in the same state would.
C23_DegradedPollIsBlock ==
    [][\A kind \in CompletionKinds :
           (pme_gpu_try_finish_task(kind) /\ PollAsserted /\ PollDegraded(kind))
           => (/\ call'.ret = "done"
               /\ call'.events = <<"synchronize", "getOutput", "reduce">>
               /\ pc' = "reinit"
               /\ nNotDone' = nNotDone
               /\ stream' = <<>>
               /\ forceWithVirial' = BlockCalledHere.forceWithVirial
               /\ enerd' = BlockCalledHere.enerd
               /\ stream' = BlockCalledHere.stream
               /\ dev' = BlockCalledHere.dev
               /\ call'.output = BlockCalledHere.output)]_vars

C23_Witness ==
    /\ call.name = "poll" /\ call.ret = "done" /\ call.kind = "Check"
    /\ ~c_streamQuerySupported
    /\ call.events = <<"synchronize", "getOutput", "reduce">>
    /\ nNotDone = 0
    /\ common.ngrids = 2 /\ lambdaQ # LambdaOne
    /\ computeEnergyAndVirial(stepWork)
    /\ settings.performGPUGather
    /\ \A i \in Atoms : forceWithVirial.force_[i] = OtherForce(i) + StepForce(i)
    /\ enerd.term = OtherTerms.energy + StepEnergy

\* The host-threaded stages launched in this step.
HostStages == {k \in 1 .. Len(issued) : issued[k].where = "cpu"}

\* C24: whatever performGPUFFT and performGPUSolve are, no host-threaded
\* stage of the transform of any grid (host FFT in either direction, host
\* solve) runs while device work issued earlier on the stream that writes the
\* grid it reads is still incomplete.
C24_NoHostStageOnPendingGrid ==
    \A k \in HostStages : ~issued[k].pending

\* The arguments of the prepare call made last.
LastPrepare == boxHistory[Len(boxHistory)]

\* C25: after every prepare call, whether or not it triggered the box
\* update, the solver's useGpuForceReduction is the useGpuPmeFReduction flag
\* passed to that call, and it is the mode the step's gather, poll and block
\* see: the gather accumulates in place, the poll is rejected and the fetch
\* returns no forces exactly when the flag of this step's prepare is set,
\* whatever the flag of an earlier step was.
C25_ReductionModeOfThisStep ==
    boxHistory # <<>> =>
        LET flag == LastPrepare.useGpuPmeFReduction
        IN  /\ settings.useGpuForceReduction = flag
            /\ \A k \in 1 .. Len(issued) :
                   issued[k].op = "gather" => issued[k].inPlace = flag
            /\ call.name = "poll" => ((call.ret = "abort") = flag)
            /\ (call.name \in {"poll", "block"} /\ DidIn(call, "getOutput"))
                   => call.output.haveForceOutput_ = ~flag

C25_Witness ==
    /\ Len(boxHistory) = 2
    /\ boxHistory[1].useGpuPmeFReduction
    /\ ~boxHistory[2].useGpuPmeFReduction
    /\ boxHistory[1].box = boxHistory[2].box
    /\ ~settings.useGpuForceReduction
    /\ call.name = "poll" /\ call.ret = "done"
    /\ call.output.haveForceOutput_
    /\ nReduce.forces = 1

\* The poll returned "done" and the step's output is in the accumulators.
PollDoneAndReduced ==
    /\ call.name = "poll" /\ call.ret = "done"
    /\ stream = <<>>
    /\ nReduce.outputs = 1 /\ nReduce.forces = 1
    /\ \A i \in Atoms : forceWithVirial.force_[i] = OtherForce(i) + StepForce(i)
    /\ LET cev == computeEnergyAndVirial(stepWork)
       IN  /\ enerd.term = OtherTerms.energy + (IF cev THEN StepEnergy ELSE 0)
           /\ enerd.dvdl_lin = OtherTerms.dvdl + (IF cev THEN StepDvdl ELSE 0)
           /\ forceWithVirial.virial_
                  = OtherTerms.virial + (IF cev THEN StepVirial ELSE 0)

\* C26: if the device eventually executes the work enqueued on the stream, a
\* caller that has launched a step and polls again and again, doing other
\* work between its polls, eventually gets "done" from a poll; and whenever
\* a poll has returned "done" the step's output has been reduced into the
\* accumulators.
C26_RepeatedPollEventuallyDone ==
    /\ (pc = "finish") ~> (pc = "reinit" /\ PollDoneAndReduced)
    /\ []((call.name = "poll" /\ call.ret = "done") => PollDoneAndReduced)

C26_Witness ==
    /\ pc = "reinit"
    /\ PollDoneAndReduced
    /\ call.events = <<"query", "getOutput", "reduce">>
    /\ nNotDone = MaxPolls
    /\ common.ngrids = 2
    /\ step = 1

\* C27: a step with host-side force reduction is completed with the same
\* destination force array, virial, energy term and dvdl, and with the same
\* fetched output, by a poll that returns "done" (after its query or after
\* its synchronize) and by a block call made in the same state; the
\* weighting factor the fetch gets is the same on both paths: selecting it
\* by the grid count twice, as the block path does, gives what selecting it
\* once gives.
C27_PollDoneAndBlockAgree ==
    [][(pc = "finish" /\ pc' = "reinit" /\ ~settings.useGpuForceReduction)
       => (/\ call'.name \in {"poll", "block"}
           /\ forceWithVirial' = BlockCalledHere.forceWithVirial
           /\ enerd' = BlockCalledHere.enerd
           /\ call'.output = BlockCalledHere.output
           /\ call'.lambda = FetchLambda(lambdaQ)
           /\ \A lambda \in Lambdas :
                  FetchLambda(FetchLambda(lambda)) = FetchLambda(lambda))]_vars

C27_Witness ==
    /\ pc = "reinit"
    /\ call.name = "poll" /\ call.ret = "done"
    /\ call.events = <<"query", "getOutput", "reduce">>
    /\ ~settings.useGpuForceReduction
    /\ common.ngrids = 2
    /\ lambdaQ # LambdaOne /\ call.lambda = lambdaQ
    /\ stepWork.computeEnergy /\ ~stepWork.computeVirial
    /\ settings.performGPUGather
    /\ enerd.term = OtherTerms.energy + StepEnergy
    /\ enerd.dvdl_lin = OtherTerms.dvdl + StepDvdl
    /\ \A i \in Atoms : forceWithVirial.force_[i] = OtherForce(i) + StepForce(i)

\* Does event a come before every event b in the events of call c?
Precedes(c, a, b) ==
    \E i \in 1 .. Len(c.events) :
        /\ c.events[i] = a
        /\ \A j \in 1 .. Len(c.events) : c.events[j] = b => i < j

\* C28: a block call that fetches a device-produced output (energy, virial
\* and dvdl when computeEnergyAndVirial, forces when the reduction is
\* host-side) has synchronized the stream earlier in the same call, so that
\* what it fetches is the output of the finished step; it fetches without a
\* synchronize only when the reduction is device-side and neither energy nor
\* virial is requested.
C28_BlockConsumesOnlyAfterSynchronize ==
    (call.name = "block" /\ DidIn(call, "getOutput")) =>
        LET cev == computeEnergyAndVirial(stepWork)
            output == call.output
        IN  /\ (cev \/ output.haveForceOutput_)
                   => /\ Precedes(call, "synchronize", "getOutput")
                      /\ stream = <<>>
            /\ cev => /\ output.coulombEnergy_ = StepEnergy
                      /\ output.coulombVirial_ = StepVirial
                      /\ output.coulombDvdl_ = StepDvdl
            /\ (output.haveForceOutput_ /\ settings.performGPUGather)
                   => \A i \in Atoms : output.forces_[i] = StepForce(i)
            /\ ~DidIn(call, "synchronize")
                   => /\ settings.useGpuForceReduction /\ ~cev
                      /\ ~output.haveForceOutput_
                      /\ output.coulombEnergy_ = 0 /\ output.coulombVirial_ = 0

C28_Witness ==
    /\ call.name = "block" /\ call.ret = "done"
    /\ call.events = <<"synchronize", "getOutput", "reduce">>
    /\ settings.useGpuForceReduction
    /\ stepWork.computeVirial /\ ~stepWork.computeEnergy
    /\ ~call.output.haveForceOutput_
    /\ call.output.coulombVirial_ = StepVirial
    /\ step = MaxSteps

\* C29: a block call made with device-side force reduction and with neither
\* computeEnergy nor computeVirial set leaves the destination force array,
\* the virial, the Coulomb-reciprocal energy term and the dvdl accumulator as
\* they were: it does not wait, so the device writes nothing during the call,
\* and its reduction adds nothing on the host.
C29_BlockWithoutOutputsChangesNothing ==
    [][(/\ pme_gpu_wait_and_reduce
        /\ pme_gpu_active
        /\ settings.useGpuForceReduction
        /\ ~stepWork.computeEnergy /\ ~stepWork.computeVirial)
       => (/\ call'.name = "block" /\ call'.ret = "done"
           /\ forceWithVirial'.force_ = forceWithVirial.force_
           /\ forceWithVirial'.virial_ = forceWithVirial.virial_
           /\ enerd'.term = enerd.term
           /\ enerd'.dvdl_lin = enerd.dvdl_lin
           /\ nReduce'.forces = nReduce.forces
           /\ UNCHANGED <<stream, dev, executed>>)]_vars

C29_Witness ==
    /\ call.name = "block" /\ call.ret = "done"
    /\ settings.useGpuForceReduction
    /\ ~stepWork.computeEnergy /\ ~stepWork.computeVirial
    /\ settings.performGPUGather
    /\ LastIndexOf("gather") > 0
    /\ forceWithVirial.force_ = OtherForces
    /\ forceWithVirial.virial_ = OtherTerms.virial
    /\ enerd = [term |-> OtherTerms.energy, dvdl_lin |-> OtherTerms.dvdl]
    /\ common.ngrids = 2

\* C30: with a host-executed solve, after every prepare call of a run,
\* whether or not the call triggered the recompute, the host reciprocal box
\* and cell volume are the ones derived (by the one box-scaling transform of
\* the run) from the lower-triangular entries of the box passed to that
\* call, which are the ones persisted: they are never stale.
C30_HostBoxNeverStale ==
    (boxHistory # <<>> /\ ~settings.performGPUSolve) =>
        LET box == boxHistory[Len(boxHistory)].box
        IN  /\ pme.recipbox = HostRecipbox(box)
            /\ pme.boxVolume = HostBoxVolume(box)
            /\ \A p \in LowerTriangle :
                   common.previousBox[p[1]][p[2]] = box[p[1]][p[2]]
            /\ pme.recipbox = HostRecipbox(common.previousBox)

C30_Witness ==
    /\ PreparePassed
    /\ ~settings.performGPUSolve
    /\ boxHistory = <<[box |-> BoxB, haveDynamicBox |-> FALSE],
                      [box |-> BoxA, haveDynamicBox |-> FALSE],
                      [box |-> BoxC, haveDynamicBox |-> FALSE]>>
    /\ call.events = <<>>
    /\ pme.recipbox = HostRecipbox(BoxC)
    /\ pme.recipbox # HostRecipbox(BoxB)

====
